---- MODULE Spec2Model ----
(***************************************************************************)
(* Model of the useEventListener hook of sc-hooks                          *)
(* (src/hooks/use-event-listener/index.ts).                               *)
(*                                                                         *)
(* A step of a hook instance is one render of the owning component         *)
(* together with the commit of its effects, which is how the repository's  *)
(* tests drive the hook (renderHook / unmount): on an update the changed   *)
(* effects' cleanups run first, then the effect bodies in source order.    *)
(* The platform is the set of listener registrations of the DOM event      *)
(* targets; events reach only the target they are dispatched on            *)
(* (the targets are detached from each other, as in the tests).            *)
(***************************************************************************)
EXTENDS Integers, Sequences, FiniteSets, TLC

\* ---- bounds ----
\* addEventListener calls one hook instance may make
MaxAdds == 2
\* handler invocations over a run
MaxCalls == 2

\* ---- the values of the model ----
Hooks == {"h1", "h2"}
EventNames == {"click", "resize"}
Handlers == {"f", "g"}
\* a handler whose body throws
ThrowingHandlers == {"boom"}
Refs == {"r1"}
Undefined == "undefined"
Null == "null"
Window == "window"
\* an object without addEventListener
PlainObject == "obj"
Elements == {"div", "a"}
EventTargets == {Window} \cup Elements
\* an object whose addEventListener throws when called
ThrowingTarget == "hostile"
\* undefined and two distinct objects with the same contents {capture: true}
OptionValues == {Undefined, "capture1", "capture2"}
\* no cleanup function: the last run of the second effect returned nothing
NoSub == [target |-> Null]
\* no event dispatched by the last step
NoEvent == [target |-> Null]
NoProps == [eventName |-> Null]

Props == [eventName : EventNames, handler : Handlers,
          element : {Undefined} \cup Refs, options : OptionValues]

VARIABLES
  \* "new", "mounted" or "unmounted", per hook instance
  status,
  \* the arguments of the instance's latest render
  props,
  \* savedHandler.current
  savedHandler,
  \* what the cleanup closure returned by the latest run of the second
  \* effect captured (targetElement, eventName, listener, options), or NoSub
  sub,
  \* the current value of each reference object
  refCurrent,
  \* the listener registrations of the platform
  listeners,
  \* addEventListener / removeEventListener calls made so far, per instance
  adds, removes,
  \* invocations of each handler through each instance's listener
  calls,
  \* the platform calls made by the latest step, in order
  lastCalls,
  \* the event dispatched by the latest step and the handlers it invoked
  lastEvent,
  \* an exception escaped from the hook
  raised,
  \* the items of window.localStorage and window.sessionStorage, per key
  store,
  \* the latest call of a storage hook's function: its argument, what it
  \* returned and what it logged
  lastOp

vars == <<status, props, savedHandler, sub, refCurrent, listeners,
          adds, removes, calls, lastCalls, lastEvent, raised, store, lastOp>>

\* the state of the event listener hook and of the storage hooks
listenerVars == <<status, props, savedHandler, sub, refCurrent, listeners,
                  adds, removes, calls, lastCalls, lastEvent>>
storageVars == <<store, lastOp>>

\* the two platform storages and the keys the hooks are created with
StoreNames == {"local", "session"}
Keys == {"k1", "k2"}
\* getItem returns null: no item under the key
NoItem == <<"(no item)">>
\* no storage function called yet
NoOp == [op |-> "none", by |-> "none"]

\* the capture flag of an options value, the part of it listener matching uses
Capture(o) == o # Undefined

\* EventTarget.addEventListener: a registration equal in type, callback and
\* capture flag is not added twice
AddEventListener(L, t, e, fn, o) ==
  IF \E l \in L : l.target = t /\ l.type = e /\ l.fn = fn
                  /\ Capture(l.options) = Capture(o)
  THEN L
  ELSE L \cup {[target |-> t, type |-> e, fn |-> fn, options |-> o]}

\* EventTarget.removeEventListener: removes the registration equal in type,
\* callback and capture flag, if any
RemoveEventListener(L, t, e, fn, o) ==
  {l \in L : ~(l.target = t /\ l.type = e /\ l.fn = fn
               /\ Capture(l.options) = Capture(o))}

\* the registrations after one platform call; a call on an object that is
\* not an event target changes nothing (it throws, see Raises)
ApplyCall(L, c) ==
  IF c.target \notin EventTargets THEN L
  ELSE IF c.op = "add"
       THEN AddEventListener(L, c.target, c.type, c.fn, c.options)
       ELSE RemoveEventListener(L, c.target, c.type, c.fn, c.options)

RECURSIVE ApplyCalls(_, _)
ApplyCalls(L, cs) ==
  IF cs = <<>> THEN L ELSE ApplyCalls(ApplyCall(L, Head(cs)), Tail(cs))

\* calling addEventListener on an object that has none throws a TypeError,
\* and the addEventListener of the throwing target throws
Raises(cs) == \E k \in 1..Len(cs) : cs[k].target \notin EventTargets

\* the reference is ignored: window
ResolveTarget_AlwaysWindow(el) == Window

\* element?.current, without the default
ResolveTarget_NoWindow(el) ==
  IF el = Undefined THEN Undefined ELSE refCurrent[el]

\* element ? element.current : window
ResolveTarget_NullKept(el) ==
  IF el = Undefined THEN Window ELSE refCurrent[el]

\* element?.current ?? window
ResolveTarget(el) ==
  IF el = Undefined THEN Window
  ELSE IF refCurrent[el] = Null THEN Window
  ELSE refCurrent[el]

\* no guard before the addEventListener call
CanAttach_Always(t) == TRUE

\* the guard  if (!targetElement?.addEventListener) return;
CanAttach(t) == t \in EventTargets \cup {ThrowingTarget}

\* a dependency list without options
DepsChanged_NoOptions(old, new) ==
  \/ old.eventName # new.eventName
  \/ old.element # new.element

\* a dependency list without element
DepsChanged_NoElement(old, new) ==
  \/ old.eventName # new.eventName
  \/ old.options # new.options

\* a dependency list that also names the handler
DepsChanged_WithHandler(old, new) ==
  \/ old.eventName # new.eventName
  \/ old.element # new.element
  \/ old.options # new.options
  \/ old.handler # new.handler

\* options compared by their contents
DepsChanged_OptionsByContents(old, new) ==
  \/ old.eventName # new.eventName
  \/ old.element # new.element
  \/ Capture(old.options) # Capture(new.options)

\* the dependency list [eventName, element, options], compared by identity
DepsChanged(old, new) ==
  \/ old.eventName # new.eventName
  \/ old.element # new.element
  \/ old.options # new.options

\* the cell keeps the handler of the first render
UpdateSavedHandler_Stale(saved, old, new) == saved

\* useEffect(() => { savedHandler.current = handler }, [handler])
UpdateSavedHandler(saved, old, new) ==
  IF old.handler # new.handler THEN new.handler ELSE saved

\* one listener function shared by every instance
NewListener_Shared(i) == <<"h1", 1>>

\* the caller's handler f itself is registered with the platform
NewListener_Handler(i) == <<"f", 0>>

\* the listener closure created by one run of the second effect
NewListener(i) == <<i, adds[i] + 1>>

\* a cleanup that calls removeEventListener(eventName, listener)
EffectCleanup_NoOptions(i) ==
  IF sub[i] = NoSub THEN <<>>
  ELSE <<[op |-> "remove", target |-> sub[i].target,
          type |-> sub[i].eventName, fn |-> sub[i].listener,
          options |-> Undefined]>>

\* an effect that returns no cleanup function
EffectCleanup_None(i) == <<>>

\* a cleanup that resolves the target again when it runs
EffectCleanup_ResolvedAgain(i) ==
  IF sub[i] = NoSub THEN <<>>
  ELSE <<[op |-> "remove", target |-> ResolveTarget(props[i].element),
          type |-> sub[i].eventName, fn |-> sub[i].listener,
          options |-> sub[i].options]>>

\* the platform calls of the cleanup function of instance i
EffectCleanup(i) ==
  IF sub[i] = NoSub THEN <<>>
  ELSE <<[op |-> "remove", target |-> sub[i].target,
          type |-> sub[i].eventName, fn |-> sub[i].listener,
          options |-> sub[i].options]>>

\* the platform calls of the second effect's body of instance i for props p
EffectBody(i, p) ==
  LET targetElement == ResolveTarget(p.element) IN
  IF ~CanAttach(targetElement) THEN <<>>
  ELSE <<[op |-> "add", target |-> targetElement, type |-> p.eventName,
          fn |-> NewListener(i), options |-> p.options]>>

\* what the cleanup function returned by that run of the body captures
EffectReturn(i, p) ==
  LET cs == EffectBody(i, p) IN
  IF cs = <<>> \/ Raises(cs) THEN NoSub
  ELSE [target |-> cs[1].target, eventName |-> cs[1].type,
        listener |-> cs[1].fn, options |-> cs[1].options]

\* a rebind that attaches the new listener before removing the old one
RebindCalls_AddFirst(i, p) == EffectBody(i, p) \o EffectCleanup(i)

\* the platform calls of a rebind: React runs the cleanup of the previous
\* run of the effect, then the body of the new run
RebindCalls(i, p) == EffectCleanup(i) \o EffectBody(i, p)

Init ==
  /\ status = [i \in Hooks |-> "new"]
  /\ props = [i \in Hooks |-> NoProps]
  /\ savedHandler = [i \in Hooks |-> Null]
  /\ sub = [i \in Hooks |-> NoSub]
  /\ refCurrent = [r \in Refs |-> Null]
  /\ listeners = {}
  /\ adds = [i \in Hooks |-> 0]
  /\ removes = [i \in Hooks |-> 0]
  /\ calls = [i \in Hooks |-> [h \in Handlers \cup ThrowingHandlers |-> 0]]
  /\ lastCalls = <<>>
  /\ lastEvent = NoEvent
  /\ raised = FALSE
  /\ store = [st \in StoreNames |-> [k \in Keys |-> NoItem]]
  /\ lastOp = NoOp

\* first render of an instance: useRef(handler), then both effects run
Mount(i, p) ==
  /\ status[i] = "new"
  /\ status' = [status EXCEPT ![i] = "mounted"]
  /\ props' = [props EXCEPT ![i] = p]
  /\ savedHandler' = [savedHandler EXCEPT ![i] = p.handler]
  /\ sub' = [sub EXCEPT ![i] = EffectReturn(i, p)]
  /\ listeners' = ApplyCalls(listeners, EffectBody(i, p))
  /\ adds' = [adds EXCEPT ![i] = @ + Len(EffectBody(i, p))]
  /\ lastCalls' = EffectBody(i, p)
  /\ lastEvent' = NoEvent
  /\ raised' = (raised \/ Raises(EffectBody(i, p)))
  /\ UNCHANGED <<refCurrent, removes, calls, storageVars>>

\* a later render: cleanup of the second effect if its dependencies changed,
\* then the first effect if the handler changed, then the second effect's body
Rerender(i, p) ==
  /\ status[i] = "mounted"
  /\ DepsChanged(props[i], p) => adds[i] < MaxAdds
  /\ props' = [props EXCEPT ![i] = p]
  /\ savedHandler' =
       [savedHandler EXCEPT ![i] = UpdateSavedHandler(@, props[i], p)]
  /\ lastEvent' = NoEvent
  /\ IF DepsChanged(props[i], p)
     THEN /\ sub' = [sub EXCEPT ![i] = EffectReturn(i, p)]
          /\ listeners' = ApplyCalls(listeners, RebindCalls(i, p))
          /\ removes' = [removes EXCEPT ![i] = @ + Len(EffectCleanup(i))]
          /\ adds' = [adds EXCEPT ![i] = @ + Len(EffectBody(i, p))]
          /\ lastCalls' = RebindCalls(i, p)
          /\ raised' = (raised \/ Raises(EffectBody(i, p)))
     ELSE /\ lastCalls' = <<>>
          /\ UNCHANGED <<sub, listeners, removes, adds, raised>>
  /\ UNCHANGED <<status, refCurrent, calls, storageVars>>

\* unmount of the owning component: the second effect's cleanup runs
Unmount(i) ==
  /\ status[i] = "mounted"
  /\ status' = [status EXCEPT ![i] = "unmounted"]
  /\ listeners' = ApplyCalls(listeners, EffectCleanup(i))
  /\ removes' = [removes EXCEPT ![i] = @ + Len(EffectCleanup(i))]
  /\ lastCalls' = EffectCleanup(i)
  /\ lastEvent' = NoEvent
  /\ UNCHANGED <<props, savedHandler, sub, refCurrent, adds, calls, raised,
                 storageVars>>

\* the object a reference points to changes (ref.current is assigned)
SetRef(r, v) ==
  /\ refCurrent[r] # v
  /\ refCurrent' = [refCurrent EXCEPT ![r] = v]
  /\ lastCalls' = <<>>
  /\ lastEvent' = NoEvent
  /\ UNCHANGED <<status, props, savedHandler, sub, listeners,
                 adds, removes, calls, raised, storageVars>>

\* the registrations of instance i that an event e dispatched on t reaches
Reached(i, t, e) ==
  {l \in listeners : l.target = t /\ l.type = e /\ l.fn[1] = i}

\* the listener of instance i runs:  (event) => savedHandler.current(event)
Listener(i) == savedHandler[i]

RECURSIVE SumOver(_, _)
SumOver(f, S) ==
  IF S = {} THEN 0
  ELSE LET x == CHOOSE y \in S : TRUE IN f[x] + SumOver(f, S \ {x})

\* handler invocations so far
TotalCalls ==
  SumOver([i \in Hooks |-> SumOver(calls[i], Handlers \cup ThrowingHandlers)],
          Hooks)

\* target.dispatchEvent(new Event(e)): every listener registered on t for e
\* runs; the listener has no try, so what the handler throws leaves it
Dispatch(t, e) ==
  /\ TotalCalls
       + SumOver([i \in Hooks |-> Cardinality(Reached(i, t, e))], Hooks)
       <= MaxCalls
  /\ calls' = [i \in Hooks |->
                 IF Reached(i, t, e) # {}
                 THEN [calls[i] EXCEPT
                         ![Listener(i)] = @ + Cardinality(Reached(i, t, e))]
                 ELSE calls[i]]
  /\ lastEvent' = [target |-> t, type |-> e,
                   invoked |-> {<<i, Listener(i)>> :
                                  i \in {j \in Hooks : Reached(j, t, e) # {}}}]
  /\ lastCalls' = <<>>
  /\ raised' = (raised \/ \E i \in Hooks : /\ Reached(i, t, e) # {}
                                           /\ Listener(i) \in ThrowingHandlers)
  /\ UNCHANGED <<status, props, savedHandler, sub, refCurrent, listeners,
                 adds, removes, storageVars>>

\* the steps of the hook instances H rendered with props drawn from P
Step(H, P) ==
  \/ \E i \in H, p \in P : Mount(i, p)
  \/ \E i \in H, p \in P : Rerender(i, p)
  \/ \E i \in H : Unmount(i)
  \/ \E r \in Refs, v \in {Null, PlainObject} \cup Elements : SetRef(r, v)
  \/ \E t \in EventTargets, e \in EventNames : Dispatch(t, e)

\* one component using the hook once
Next == Step({"h1"}, Props)

Spec == Init /\ [][Next]_vars

\* ---- the storage hooks: useLocalStorage, useSessionStorage ----
\* Storage items and serialized values are strings, modelled as sequences
\* of characters; JavaScript values are records tagged with their type.

JUndefined == [t |-> "undefined"]
JNull == [t |-> "null"]
JNaN == [t |-> "number", nan |-> TRUE]
JNum(n) == [t |-> "number", num |-> n]
JBool(b) == [t |-> "boolean", bool |-> b]
JStr(cs) == [t |-> "string", chars |-> cs]
JArr(vs) == [t |-> "array", items |-> vs]
\* a plain object: its properties in insertion order, keys distinct
JObj(es) == [t |-> "object", entries |-> es]
\* an object that refers to itself
JCyclic == [t |-> "cyclic"]

DigitChars == <<"0", "1", "2", "3", "4", "5", "6", "7", "8", "9">>

\* the decimal digits of a natural number
RECURSIVE NatToString(_)
NatToString(n) ==
  IF n < 10 THEN <<DigitChars[n + 1]>>
  ELSE NatToString(n \div 10) \o <<DigitChars[(n % 10) + 1]>>

\* the characters of a string with quote and backslash escaped
RECURSIVE EscapeChars(_)
EscapeChars(cs) ==
  IF cs = <<>> THEN <<>>
  ELSE (IF Head(cs) \in {"\"", "\\"} THEN <<"\\", Head(cs)>>
        ELSE <<Head(cs)>>) \o EscapeChars(Tail(cs))

QuoteString(cs) == <<"\"">> \o EscapeChars(cs) \o <<"\"">>

\* JSON.stringify throws a TypeError on a cyclic structure
RECURSIVE StringifyThrows(_)
StringifyThrows(v) ==
  CASE v.t = "cyclic" -> TRUE
    [] v.t = "array" ->
         \E k \in 1..Len(v.items) : StringifyThrows(v.items[k])
    [] v.t = "object" ->
         \E k \in 1..Len(v.entries) : StringifyThrows(v.entries[k].val)
    [] OTHER -> FALSE

\* JSON.stringify(value) for a value inside an array or object, and at top
\* level for a value that is not undefined
RECURSIVE Stringify(_)
RECURSIVE StringifyItems(_)
RECURSIVE StringifyEntries(_, _)
Stringify(v) ==
  CASE v.t = "undefined" -> <<"n", "u", "l", "l">>
    [] v.t = "null" -> <<"n", "u", "l", "l">>
    [] v.t = "number" ->
         IF v = JNaN THEN <<"n", "u", "l", "l">>
         ELSE IF v.num < 0 THEN <<"-">> \o NatToString(0 - v.num)
         ELSE NatToString(v.num)
    [] v.t = "boolean" ->
         IF v.bool THEN <<"t", "r", "u", "e">>
         ELSE <<"f", "a", "l", "s", "e">>
    [] v.t = "string" -> QuoteString(v.chars)
    [] v.t = "array" -> <<"[">> \o StringifyItems(v.items) \o <<"]">>
    [] v.t = "object" ->
         <<"{">> \o StringifyEntries(v.entries, TRUE) \o <<"}">>

StringifyItems(vs) ==
  IF vs = <<>> THEN <<>>
  ELSE Stringify(Head(vs))
       \o (IF Tail(vs) = <<>> THEN <<>>
           ELSE <<",">> \o StringifyItems(Tail(vs)))

\* properties whose value is undefined are left out
StringifyEntries(es, first) ==
  IF es = <<>> THEN <<>>
  ELSE IF Head(es).val = JUndefined THEN StringifyEntries(Tail(es), first)
  ELSE (IF first THEN <<>> ELSE <<",">>)
       \o QuoteString(Head(es).key) \o <<":">> \o Stringify(Head(es).val)
       \o StringifyEntries(Tail(es), FALSE)

\* what setItem(key, JSON.stringify(value)) stores: JSON.stringify(undefined)
\* is undefined, which setItem converts to the string "undefined"
SerializedItem(v) ==
  IF v = JUndefined THEN <<"u", "n", "d", "e", "f", "i", "n", "e", "d">>
  ELSE Stringify(v)

ParseFail == [ok |-> FALSE]
ParseOk(v, next) == [ok |-> TRUE, val |-> v, next |-> next]

\* s[pos..] starts with the characters w
StartsWith(s, pos, w) ==
  /\ pos + Len(w) - 1 <= Len(s)
  /\ \A k \in 1..Len(w) : s[pos + k - 1] = w[k]

IsDigit(c) == \E k \in 1..10 : DigitChars[k] = c
DigitValue(c) == (CHOOSE k \in 1..10 : DigitChars[k] = c) - 1

\* the digits from pos on: value read so far, position after them
RECURSIVE ParseDigits(_, _, _)
ParseDigits(s, pos, acc) ==
  IF pos <= Len(s) /\ IsDigit(s[pos])
  THEN ParseDigits(s, pos + 1, acc * 10 + DigitValue(s[pos]))
  ELSE ParseOk(acc, pos)

\* a JSON integer: an optional minus, then 0 or digits without a leading 0
\* (fractions and exponents are not among the strings of the model)
ParseNumber(s, pos) ==
  LET neg == pos <= Len(s) /\ s[pos] = "-"
      start == IF neg THEN pos + 1 ELSE pos
  IN IF ~(start <= Len(s) /\ IsDigit(s[start])) THEN ParseFail
     ELSE LET r == ParseDigits(s, start, 0) IN
          IF s[start] = "0" /\ r.next > start + 1 THEN ParseFail
          ELSE ParseOk(JNum(IF neg THEN 0 - r.val ELSE r.val), r.next)

\* the characters of a JSON string from pos (after the opening quote) up to
\* the closing quote, with \" and \\ unescaped
RECURSIVE ParseChars(_, _, _)
ParseChars(s, pos, acc) ==
  IF pos > Len(s) THEN ParseFail
  ELSE IF s[pos] = "\"" THEN ParseOk(acc, pos + 1)
  ELSE IF s[pos] = "\\"
       THEN IF pos + 1 <= Len(s) /\ s[pos + 1] \in {"\"", "\\"}
            THEN ParseChars(s, pos + 2, Append(acc, s[pos + 1]))
            ELSE ParseFail
  ELSE ParseChars(s, pos + 1, Append(acc, s[pos]))

\* JSON.parse, one value starting at pos
RECURSIVE ParseValue(_, _)
RECURSIVE ParseItems(_, _, _)
RECURSIVE ParseEntries(_, _, _)
ParseValue(s, pos) ==
  IF pos > Len(s) THEN ParseFail
  ELSE IF StartsWith(s, pos, <<"n", "u", "l", "l">>)
       THEN ParseOk(JNull, pos + 4)
  ELSE IF StartsWith(s, pos, <<"t", "r", "u", "e">>)
       THEN ParseOk(JBool(TRUE), pos + 4)
  ELSE IF StartsWith(s, pos, <<"f", "a", "l", "s", "e">>)
       THEN ParseOk(JBool(FALSE), pos + 5)
  ELSE IF s[pos] = "\""
       THEN LET r == ParseChars(s, pos + 1, <<>>) IN
            IF r.ok THEN ParseOk(JStr(r.val), r.next) ELSE ParseFail
  ELSE IF s[pos] = "["
       THEN IF pos + 1 <= Len(s) /\ s[pos + 1] = "]"
            THEN ParseOk(JArr(<<>>), pos + 2)
            ELSE ParseItems(s, pos + 1, <<>>)
  ELSE IF s[pos] = "{"
       THEN IF pos + 1 <= Len(s) /\ s[pos + 1] = "}"
            THEN ParseOk(JObj(<<>>), pos + 2)
            ELSE ParseEntries(s, pos + 1, <<>>)
  ELSE ParseNumber(s, pos)

\* the items of an array from pos on, up to the closing bracket
ParseItems(s, pos, acc) ==
  LET r == ParseValue(s, pos) IN
  IF ~r.ok \/ r.next > Len(s) THEN ParseFail
  ELSE IF s[r.next] = "]" THEN ParseOk(JArr(Append(acc, r.val)), r.next + 1)
  ELSE IF s[r.next] = "," THEN ParseItems(s, r.next + 1, Append(acc, r.val))
  ELSE ParseFail

\* the properties of an object from pos on, up to the closing brace
ParseEntries(s, pos, acc) ==
  IF ~(pos <= Len(s) /\ s[pos] = "\"") THEN ParseFail
  ELSE LET k == ParseChars(s, pos + 1, <<>>) IN
       IF ~k.ok \/ k.next > Len(s) \/ s[k.next] # ":" THEN ParseFail
       ELSE LET r == ParseValue(s, k.next + 1)
                e == [key |-> k.val, val |-> r.val]
            IN IF ~r.ok \/ r.next > Len(s) THEN ParseFail
               ELSE IF s[r.next] = "}"
                    THEN ParseOk(JObj(Append(acc, e)), r.next + 1)
               ELSE IF s[r.next] = ","
                    THEN ParseEntries(s, r.next + 1, Append(acc, e))
               ELSE ParseFail

\* JSON.parse(item): the value, or a SyntaxError when item is not one JSON
\* text
JsonParse(s) ==
  LET r == ParseValue(s, 1) IN
  IF r.ok /\ r.next = Len(s) + 1 THEN [ok |-> TRUE, val |-> r.val]
  ELSE ParseFail

\* the values handed to the setter: strings (one with a quote and a
\* backslash), numbers (NaN among them), booleans, arrays and plain objects,
\* and undefined, an array holding undefined and a cyclic object
SampleValues ==
  { JStr(<<>>), JStr(<<"a", "\"", "\\">>),
    JNum(0), JNum(11), JNaN,
    JBool(TRUE), JBool(FALSE),
    JArr(<<>>), JArr(<<JNum(1), JStr(<<"a">>)>>), JArr(<<JUndefined>>),
    JObj(<<>>),
    JObj(<<[key |-> <<"a">>, val |-> JArr(<<JBool(TRUE)>>)]>>),
    JUndefined, JCyclic }

\* strings other code may have stored under the key
RawItems == { <<"{">>, <<"1", "1">> }

\* window.console.log in useLocalStorage, window.console.error in
\* useSessionStorage
LogFunction(st) == IF st = "local" THEN "log" ELSE "error"

\* functions without try / catch
TryCatch_Rethrow(st, threw) ==
  [logged |-> "none", raised |-> threw # "none"]

\* try { ... } catch (error) { window.console.log(error) }: what is logged
\* and whether the exception leaves the function
TryCatch(st, threw) ==
  [logged |-> IF threw # "none" THEN LogFunction(st) ELSE "none",
   raised |-> FALSE]

\* the hook instances: calls of useLocalStorage / useSessionStorage
StorageHooks == {"s1", "s2"}

\* every instance but the first uses a key of its own
StorageKey_PerInstance(inst, k) == IF inst = "s1" THEN k ELSE "k2"

\* the key an instance hands to setItem, getItem and removeItem: the key the
\* hook was called with
StorageKey(inst, k) == k

\* both hooks use window.localStorage
PlatformStore_AlwaysLocal(st) == "local"

\* the storage a hook uses: window.localStorage in useLocalStorage,
\* window.sessionStorage in useSessionStorage
PlatformStore(st) == st

\* a setter that stores the value's characters without JSON.stringify
ItemToStore_Raw(v) ==
  IF v.t = "string" THEN v.chars ELSE SerializedItem(v)

\* the string the setter hands to setItem
ItemToStore(v) == SerializedItem(v)

\* the setter: setItem(key, JSON.stringify(value)); fails: setItem throws
SetStorageItem(inst, st, k, v, fails) ==
  LET threw == IF StringifyThrows(v) THEN "stringify"
               ELSE IF fails THEN "platform" ELSE "none"
  IN /\ store' = IF threw = "none"
                 THEN [store EXCEPT
                         ![PlatformStore(st)][StorageKey(inst, k)] =
                           ItemToStore(v)]
                 ELSE store
     /\ lastOp' = [op |-> "set", by |-> inst, store |-> st, key |-> k,
                   arg |-> v,
                   ret |-> JUndefined, threw |-> threw,
                   logged |-> TryCatch(st, threw).logged]
     /\ raised' = (raised \/ TryCatch(st, threw).raised)
     /\ UNCHANGED listenerVars

\* a getter that parses without the null check
GetResult_NoNullCheck(item) ==
  IF item = NoItem THEN [threw |-> "none", ret |-> JNull]
  ELSE IF JsonParse(item).ok
       THEN [threw |-> "none", ret |-> JsonParse(item).val]
       ELSE [threw |-> "parse", ret |-> JUndefined]

\* a getter that returns the stored string itself when it does not parse
GetResult_RawOnError(item) ==
  IF item = NoItem THEN [threw |-> "none", ret |-> JUndefined]
  ELSE IF JsonParse(item).ok
       THEN [threw |-> "none", ret |-> JsonParse(item).val]
       ELSE [threw |-> "parse", ret |-> JStr(item)]

\* if (item === null) return undefined; return JSON.parse(item); and
\* undefined from the catch block
GetResult(item) ==
  IF item = NoItem THEN [threw |-> "none", ret |-> JUndefined]
  ELSE IF JsonParse(item).ok
       THEN [threw |-> "none", ret |-> JsonParse(item).val]
       ELSE [threw |-> "parse", ret |-> JUndefined]

\* the getter; fails: getItem throws. The record also says which call came
\* right before it
GetStorageItem(inst, st, k, fails) ==
  LET r == IF fails THEN [threw |-> "platform", ret |-> JUndefined]
           ELSE GetResult(store[PlatformStore(st)][StorageKey(inst, k)])
  IN /\ lastOp' = [op |-> "get", by |-> inst, store |-> st, key |-> k,
                   arg |-> JUndefined, ret |-> r.ret, threw |-> r.threw,
                   after |-> [op |-> lastOp.op, by |-> lastOp.by],
                   logged |-> TryCatch(st, r.threw).logged]
     /\ raised' = (raised \/ TryCatch(st, r.threw).raised)
     /\ UNCHANGED <<store, listenerVars>>

\* the remover: removeItem(key); fails: removeItem throws
RemoveStorageItem(inst, st, k, fails) ==
  LET threw == IF fails THEN "platform" ELSE "none"
  IN /\ store' = IF threw = "none"
                 THEN [store EXCEPT
                         ![PlatformStore(st)][StorageKey(inst, k)] = NoItem]
                 ELSE store
     /\ lastOp' = [op |-> "remove", by |-> inst, store |-> st, key |-> k,
                   arg |-> JUndefined, ret |-> JUndefined, threw |-> threw,
                   logged |-> TryCatch(st, threw).logged]
     /\ raised' = (raised \/ TryCatch(st, threw).raised)
     /\ UNCHANGED listenerVars

\* other code stores a string under the key
WriteRawItem(st, k, item) ==
  /\ store[st][k] # item
  /\ store' = [store EXCEPT ![st][k] = item]
  /\ lastOp' = [op |-> "raw", by |-> "other", store |-> st, key |-> k,
                arg |-> JUndefined,
                ret |-> JUndefined, threw |-> "none", logged |-> "none"]
  /\ UNCHANGED <<raised, listenerVars>>

\* the calls on the hook instances I created for the stores S with keys K
\* and values V
StorageStep(I, S, K, V) ==
  \/ \E inst \in I, st \in S, k \in K, v \in V, fails \in BOOLEAN :
       SetStorageItem(inst, st, k, v, fails)
  \/ \E inst \in I, st \in S, k \in K, fails \in BOOLEAN :
       GetStorageItem(inst, st, k, fails)
  \/ \E inst \in I, st \in S, k \in K, fails \in BOOLEAN :
       RemoveStorageItem(inst, st, k, fails)
  \/ \E st \in S, k \in K, item \in RawItems : WriteRawItem(st, k, item)

\* two useLocalStorage and two useSessionStorage hooks, each with key k1
StorageNext == StorageStep(StorageHooks, StoreNames, {"k1"}, SampleValues)

SpecStorage == Init /\ [][StorageNext]_vars

\* one useLocalStorage and one useSessionStorage hook for each of two keys
KeysNext ==
  StorageStep({"s1"}, StoreNames, Keys, {JNum(0), JBool(TRUE)})

SpecKeys == Init /\ [][KeysNext]_vars

\* renders with a handler that throws
FaultProps == [eventName : {"click"}, handler : {"f"} \cup ThrowingHandlers,
               element : {Undefined} \cup Refs, options : {Undefined}]

\* one component using the event listener hook and a session storage hook,
\* with a handler that may throw, a reference that may point to an object
\* whose addEventListener throws, and platform storage calls that may throw
FaultNext ==
  \/ \E p \in FaultProps : Mount("h1", p)
  \/ \E p \in FaultProps : Rerender("h1", p)
  \/ Unmount("h1")
  \/ \E r \in Refs, v \in {Null, PlainObject, "div", ThrowingTarget} :
       SetRef(r, v)
  \/ \E t \in {Window, "div"} : Dispatch(t, "click")
  \/ \E v \in {JNum(0), JCyclic}, fails \in BOOLEAN :
       SetStorageItem("s1", "session", "k1", v, fails)
  \/ \E fails \in BOOLEAN : GetStorageItem("s1", "session", "k1", fails)
  \/ \E fails \in BOOLEAN :
       RemoveStorageItem("s1", "session", "k1", fails)

SpecFaults == Init /\ [][FaultNext]_vars

\* the caller's handler h as a function value; it is no listener of the hook
HandlerFunction(h) == <<h, 0>>

\* code of the component calls target.removeEventListener(e, handler) with
\* its own handler function
RemoveByHandler(t, e, h) ==
  /\ listeners' =
       RemoveEventListener(listeners, t, e, HandlerFunction(h), Undefined)
  /\ lastCalls' = <<[op |-> "remove", target |-> t, type |-> e,
                     fn |-> HandlerFunction(h), options |-> Undefined]>>
  /\ lastEvent' = NoEvent
  /\ UNCHANGED <<status, props, savedHandler, sub, refCurrent,
                 adds, removes, calls, raised, storageVars>>

\* renders of the demo component's uses of the hook
DemoProps == [eventName : EventNames, handler : Handlers,
              element : {Undefined} \cup Refs, options : {Undefined}]

\* a component that uses the hook and also calls removeEventListener with
\* its handler
DemoNext ==
  \/ Step({"h1"}, DemoProps)
  \/ \E t \in EventTargets, e \in EventNames, h \in Handlers :
       RemoveByHandler(t, e, h)

SpecDemo == Init /\ [][DemoNext]_vars

\* renders of two components that use the hook at the same time
PairProps == [eventName : EventNames, handler : Handlers,
              element : {Undefined} \cup Refs, options : {Undefined, "capture1"}]

\* renders of the second component: on window, with either handler
PeerProps == [eventName : {"click"}, handler : Handlers,
              element : {Undefined}, options : {Undefined}]

\* two components, each using the hook once, that may share target and event
PairNext ==
  \/ \E p \in PairProps : Mount("h1", p)
  \/ \E p \in PairProps : Rerender("h1", p)
  \/ \E p \in PeerProps : Mount("h2", p)
  \/ \E p \in PeerProps : Rerender("h2", p)
  \/ \E i \in Hooks : Unmount(i)
  \/ \E r \in Refs, v \in {Null, "div"} : SetRef(r, v)
  \/ \E t \in {Window, "div"}, e \in EventNames : Dispatch(t, e)

SpecPair == Init /\ [][PairNext]_vars

\* ---- helpers of the properties ----
Mounted(i) == status[i] = "mounted"

\* the registrations made through instance i
Registered(i) == {l \in listeners : l.fn[1] = i}

\* the registration the cleanup closure of instance i would undo
SubRegistration(i) ==
  [target |-> sub[i].target, type |-> sub[i].eventName,
   fn |-> sub[i].listener, options |-> sub[i].options]

\* the latest step dispatched event e on target t
Fired(t, e) ==
  lastEvent # NoEvent /\ lastEvent.target = t /\ lastEvent.type = e

\* the instances whose listener the latest step invoked
InvokedHooks ==
  IF lastEvent = NoEvent THEN {} ELSE {c[1] : c \in lastEvent.invoked}

\* the step is a render of mounted instance i that changes only the handler
HandlerOnlyRender(i) ==
  /\ status[i] = "mounted" /\ status'[i] = "mounted"
  /\ props'[i].handler # props[i].handler
  /\ props'[i].eventName = props[i].eventName
  /\ props'[i].element = props[i].element
  /\ props'[i].options = props[i].options

MountStep(i) == status[i] = "new" /\ status'[i] = "mounted"
UnmountStep(i) == status[i] = "mounted" /\ status'[i] = "unmounted"

\* C1: every handler an event invokes through the hook's listener is the
\* handler supplied by the instance's latest render, whatever renders and
\* events came before.
C1_LatestHandlerInvoked ==
  lastEvent # NoEvent =>
    \A c \in lastEvent.invoked : c[2] = props[c[1]].handler

\* an event invoked g through the one listener that had invoked f before
C1_Witness ==
  /\ lastEvent # NoEvent
  /\ <<"h1", "g">> \in lastEvent.invoked
  /\ adds["h1"] = 1
  /\ calls["h1"]["f"] >= 1

\* C2: a render that changes only the handler makes no platform call and
\* leaves the registrations alone, and the cell then holds the new handler;
\* an instance whose target can take listeners makes one addEventListener
\* call at mount, and, having made no other, one removeEventListener call at
\* unmount; an event on the bound target invokes the latest handler.
C2_NoChurnOnHandlerChange ==
  /\ [][\A i \in Hooks :
          /\ HandlerOnlyRender(i) =>
               /\ lastCalls' = <<>>
               /\ listeners' = listeners
               /\ adds'[i] = adds[i] /\ removes'[i] = removes[i]
               /\ savedHandler'[i] = props'[i].handler
          /\ (MountStep(i) /\ sub'[i] # NoSub) =>
               /\ Len(lastCalls') = 1 /\ lastCalls'[1].op = "add"
               /\ adds'[i] = 1 /\ removes'[i] = 0
          /\ (UnmountStep(i) /\ adds[i] = 1 /\ sub[i] # NoSub) =>
               /\ Len(lastCalls') = 1 /\ lastCalls'[1].op = "remove"
               /\ removes'[i] = 1
               /\ Registered(i)' = {}]_vars
  /\ [](\A i \in Hooks :
          (Mounted(i) /\ adds[i] = 1 /\ sub[i] # NoSub
           /\ Fired(sub[i].target, sub[i].eventName))
          => <<i, props[i].handler>> \in lastEvent.invoked)

\* a whole life with one add and one remove in which both handlers ran
C2_Witness ==
  /\ status["h1"] = "unmounted"
  /\ adds["h1"] = 1 /\ removes["h1"] = 1
  /\ calls["h1"]["f"] >= 1 /\ calls["h1"]["g"] >= 1

\* C3: once the owning component is unmounted, no event invokes the handler
\* through the instance: its call counts never change again and nothing it
\* registered is left on any target.
C3_NoCallAfterUnmount ==
  /\ [][\A i \in Hooks :
          status[i] = "unmounted" => calls'[i] = calls[i]]_vars
  /\ [](\A i \in Hooks : status[i] = "unmounted" => Registered(i) = {})

\* an event of the bound name fired on the bound target after the unmount
C3_Witness ==
  /\ status["h1"] = "unmounted"
  /\ sub["h1"] # NoSub
  /\ Fired(sub["h1"].target, sub["h1"].eventName)
  /\ calls["h1"][props["h1"].handler] >= 1

\* the step is a render of mounted instance i
RenderStep(i) ==
  status[i] = "mounted" /\ status'[i] = "mounted" /\ props'[i] # props[i]

\* the step runs the body of the second effect of instance i
BodyRan(i) ==
  \/ MountStep(i)
  \/ /\ RenderStep(i)
     /\ \/ props'[i].eventName # props[i].eventName
        \/ props'[i].element # props[i].element
        \/ props'[i].options # props[i].options

\* the removeEventListener call that undoes the subscription of instance i
RemoveOfSub(i) ==
  [op |-> "remove", target |-> sub[i].target, type |-> sub[i].eventName,
   fn |-> sub[i].listener, options |-> sub[i].options]

\* C4: a render that changes eventName or options (same reference) removes
\* the attached listener from its target and, the reference resolving to an
\* event target, attaches a new one under the new eventName and options;
\* a mounted instance is invoked only by events of its current eventName.
C4_RebindOnNameOrOptions ==
  /\ [][\A i \in Hooks :
          (/\ RenderStep(i)
           /\ props'[i].element = props[i].element
           /\ \/ props'[i].eventName # props[i].eventName
              \/ props'[i].options # props[i].options)
          =>
          /\ sub[i] # NoSub =>
               /\ lastCalls' # <<>> /\ lastCalls'[1] = RemoveOfSub(i)
               /\ SubRegistration(i) \notin listeners'
          /\ ResolveTarget(props'[i].element) \in EventTargets =>
               /\ sub'[i] # NoSub
               /\ sub'[i].target = ResolveTarget(props'[i].element)
               /\ sub'[i].eventName = props'[i].eventName
               /\ sub'[i].options = props'[i].options
               /\ Registered(i)' = {SubRegistration(i)'}]_vars
  /\ [](\A i \in Hooks :
          Mounted(i) =>
            /\ i \in InvokedHooks => lastEvent.type = props[i].eventName
            /\ (sub[i] # NoSub /\ Fired(sub[i].target, props[i].eventName))
                 => i \in InvokedHooks)

\* the step removed a listener and attached one under another name or
\* other options on the same target
C4_Witness ==
  /\ Mounted("h1")
  /\ Len(lastCalls) = 2
  /\ lastCalls[1].op = "remove" /\ lastCalls[2].op = "add"
  /\ lastCalls[1].target = lastCalls[2].target
  /\ \/ lastCalls[1].type # lastCalls[2].type
     \/ lastCalls[1].options # lastCalls[2].options
  /\ Registered("h1") = {SubRegistration("h1")}
  /\ sub["h1"].eventName = props["h1"].eventName
  /\ sub["h1"].options = props["h1"].options

\* C5 as stated: when a render keeps the reference object, eventName and
\* options but the reference resolves to another object than the one the
\* listener is on, the listener is moved to the newly resolved target.
C5_Original ==
  [][\A i \in Hooks :
       (/\ RenderStep(i) /\ ~BodyRan(i)
        /\ props[i].element \in Refs
        /\ sub[i] # NoSub
        /\ ResolveTarget(props[i].element) \in EventTargets
        /\ ResolveTarget(props[i].element) # sub[i].target)
       =>
       /\ SubRegistration(i) \notin listeners'
       /\ sub'[i] # NoSub
       /\ sub'[i].target = ResolveTarget(props[i].element)]_vars

\* C5 amended: the listener is moved when the reference object itself
\* differs between two renders (removed from the old target and, the new
\* reference resolving to an event target, attached there); a render with
\* the same reference object, eventName and options leaves the listener
\* where it is, whatever the reference resolves to by then.
C5_RebindOnReferenceObject ==
  [][\A i \in Hooks :
       /\ (/\ RenderStep(i)
           /\ props'[i].element # props[i].element
           /\ props'[i].eventName = props[i].eventName
           /\ props'[i].options = props[i].options)
          =>
          /\ sub[i] # NoSub =>
               /\ lastCalls' # <<>> /\ lastCalls'[1] = RemoveOfSub(i)
               /\ SubRegistration(i) \notin listeners'
          /\ ResolveTarget(props'[i].element) \in EventTargets =>
               /\ sub'[i] # NoSub
               /\ sub'[i].target = ResolveTarget(props'[i].element)
               /\ Registered(i)' = {SubRegistration(i)'}
       /\ (RenderStep(i) /\ ~BodyRan(i)) =>
            /\ lastCalls' = <<>>
            /\ listeners' = listeners
            /\ sub'[i] = sub[i]]_vars

\* the step moved the listener from window to the element the newly passed
\* reference resolves to, name and options being the same
C5_Witness ==
  /\ Mounted("h1")
  /\ props["h1"].element = "r1"
  /\ Len(lastCalls) = 2
  /\ lastCalls[1].op = "remove" /\ lastCalls[1].target = Window
  /\ lastCalls[2].op = "add" /\ lastCalls[2].target = "div"
  /\ lastCalls[1].type = lastCalls[2].type
  /\ lastCalls[1].options = lastCalls[2].options
  /\ refCurrent["r1"] = "div"

\* C6: an instance rendered without a reference has its listener on the
\* global window, and an event of its name dispatched on window invokes
\* its handler.
C6_DefaultsToWindow ==
  \A i \in Hooks :
    (Mounted(i) /\ props[i].element = Undefined) =>
      /\ sub[i] # NoSub
      /\ sub[i].target = Window
      /\ sub[i].eventName = props[i].eventName
      /\ SubRegistration(i) \in listeners
      /\ Fired(Window, props[i].eventName)
           => <<i, props[i].handler>> \in lastEvent.invoked

\* a window event invoked the handler of an instance that has no reference
C6_Witness ==
  /\ Mounted("h1")
  /\ props["h1"].element = Undefined
  /\ Fired(Window, props["h1"].eventName)
  /\ <<"h1", props["h1"].handler>> \in lastEvent.invoked

\* C7: when the second effect runs with a reference whose current value is
\* null, the listener is attached to the global window, and until unmount a
\* window event of the bound name invokes the handler.
C7_NullReferenceFallsBackToWindow ==
  /\ [][\A i \in Hooks :
          (/\ BodyRan(i)
           /\ props'[i].element \in Refs
           /\ refCurrent[props'[i].element] = Null)
          =>
          /\ sub'[i] # NoSub
          /\ sub'[i].target = Window
          /\ SubRegistration(i)' \in listeners']_vars
  /\ [](\A i \in Hooks :
          (/\ Mounted(i)
           /\ props[i].element \in Refs
           /\ sub[i] # NoSub
           /\ sub[i].target = Window
           /\ Fired(Window, sub[i].eventName))
          => <<i, props[i].handler>> \in lastEvent.invoked)

\* a window event invoked the handler of an instance whose reference is null
C7_Witness ==
  /\ Mounted("h1")
  /\ props["h1"].element = "r1"
  /\ refCurrent["r1"] = Null
  /\ sub["h1"] # NoSub
  /\ sub["h1"].target = Window
  /\ Fired(Window, props["h1"].eventName)
  /\ <<"h1", props["h1"].handler>> \in lastEvent.invoked

\* C8 as stated: when the second effect runs with a reference that points
\* at nothing, window is not used as a fallback and no listener is attached
\* to any target.
C8_Original ==
  [][\A i \in Hooks :
       (/\ BodyRan(i)
        /\ props'[i].element \in Refs
        /\ refCurrent[props'[i].element] = Null)
       =>
       /\ Registered(i)' = {}
       /\ \A k \in 1..Len(lastCalls') : lastCalls'[k].op # "add"]_vars

\* C8 amended: when the second effect runs with a reference that points at
\* nothing, the global window is used as the fallback: the effect makes one
\* addEventListener call, on window, and the instance's only registration
\* is that one.
C8_NullReferenceAttachesToWindow ==
  [][\A i \in Hooks :
       (/\ BodyRan(i)
        /\ props'[i].element \in Refs
        /\ refCurrent[props'[i].element] = Null)
       =>
       /\ lastCalls' # <<>>
       /\ lastCalls'[Len(lastCalls')].op = "add"
       /\ lastCalls'[Len(lastCalls')].target = Window
       /\ adds'[i] = adds[i] + 1
       /\ \A l \in Registered(i)' : l.target = Window
       /\ Cardinality(Registered(i)') = 1]_vars

\* the step attached the listener of an instance whose reference is null
C8_Witness ==
  /\ Mounted("h1")
  /\ props["h1"].element = "r1"
  /\ refCurrent["r1"] = Null
  /\ lastCalls # <<>>
  /\ lastCalls[Len(lastCalls)].op = "add"
  /\ lastCalls[Len(lastCalls)].target = Window

\* C9: when the resolved target has no addEventListener, the effect attaches
\* nothing; no exception escapes at mount, render or unmount; an instance
\* without a subscription has no registration, is invoked by no event and
\* makes no platform call when it unmounts.
C9_UnattachableTargetIsSkipped ==
  /\ [][\A i \in Hooks :
          /\ (BodyRan(i) /\ ResolveTarget(props'[i].element) = PlainObject)
             =>
             /\ sub'[i] = NoSub
             /\ adds'[i] = adds[i]
             /\ Registered(i)' = {}
             /\ \A k \in 1..Len(lastCalls') : lastCalls'[k].op # "add"
          /\ (UnmountStep(i) /\ sub[i] = NoSub) =>
               /\ lastCalls' = <<>>
               /\ listeners' = listeners]_vars
  /\ [](/\ raised = FALSE
        /\ \A l \in listeners : l.target \in EventTargets
        /\ \A i \in Hooks :
             (status[i] # "new" /\ sub[i] = NoSub) =>
               /\ Registered(i) = {}
               /\ i \notin InvokedHooks)

\* an instance mounted on an object without addEventListener and unmounted
C9_Witness ==
  /\ status["h1"] = "unmounted"
  /\ props["h1"].element = "r1"
  /\ refCurrent["r1"] = PlainObject
  /\ adds["h1"] = 0
  /\ sub["h1"] = NoSub
  /\ raised = FALSE

\* C10: the unmount of an instance with an attached listener makes exactly
\* one removeEventListener call, the one that undoes its subscription,
\* whether or not an event ever fired; an instance that never called
\* addEventListener never calls removeEventListener.
C10_OneRemoveAtUnmount ==
  /\ [][\A i \in Hooks :
          UnmountStep(i) =>
            /\ sub[i] # NoSub =>
                 /\ lastCalls' = <<RemoveOfSub(i)>>
                 /\ removes'[i] = removes[i] + 1
                 /\ Registered(i)' = {}
            /\ adds[i] = 0 =>
                 /\ lastCalls' = <<>>
                 /\ removes'[i] = 0]_vars
  /\ [](\A i \in Hooks : adds[i] = 0 => removes[i] = 0)

\* the unmount removed a listener that no event had reached
C10_Witness ==
  /\ status["h1"] = "unmounted"
  /\ adds["h1"] = 1 /\ removes["h1"] = 1
  /\ Len(lastCalls) = 1 /\ lastCalls[1].op = "remove"
  /\ TotalCalls = 0

\* C11: the addEventListener and removeEventListener calls of an instance
\* are balanced: adds minus removes is 0 or 1 and is the number of its
\* registrations; after unmount adds equal removes and nothing it registered
\* is left on any target.
C11_AttachDetachBalanced ==
  \A i \in Hooks :
    /\ adds[i] - removes[i] \in {0, 1}
    /\ Cardinality(Registered(i)) = adds[i] - removes[i]
    /\ status[i] = "unmounted" =>
         /\ adds[i] = removes[i]
         /\ Registered(i) = {}

\* an instance unmounted after a rebind
C11_Witness ==
  /\ status["h1"] = "unmounted"
  /\ adds["h1"] = 2
  /\ removes["h1"] = 2
  /\ Registered("h1") = {}

\* C12 as stated: a mounted instance has exactly one registration, whatever
\* reference, eventName and options it was rendered with.
C12_Original ==
  \A i \in Hooks : Mounted(i) => Cardinality(Registered(i)) = 1

\* C12 amended: a mounted instance has at most one registration: exactly
\* one, the one its cleanup undoes, when the target resolved by the latest
\* run of the second effect is an event target, and none when that target
\* has no addEventListener.
C12_AtMostOneSubscription ==
  /\ [](\A i \in Hooks :
          Mounted(i) =>
            /\ Cardinality(Registered(i)) <= 1
            /\ sub[i] # NoSub => Registered(i) = {SubRegistration(i)}
            /\ sub[i] = NoSub => Registered(i) = {})
  /\ [][\A i \in Hooks :
          BodyRan(i) =>
            /\ (\/ props'[i].element = Undefined
                \/ refCurrent[props'[i].element] \in {Null} \cup Elements)
               => Cardinality(Registered(i)') = 1
            /\ (/\ props'[i].element \in Refs
                /\ refCurrent[props'[i].element] = PlainObject)
               => Registered(i)' = {}]_vars

\* a mounted instance without a registration
C12_Witness ==
  /\ Mounted("h1")
  /\ props["h1"].element = "r1"
  /\ refCurrent["r1"] = PlainObject
  /\ sub["h1"] = NoSub
  /\ Registered("h1") = {}

\* C13: every removeEventListener call carries the options value of the
\* addEventListener call it undoes: the registration with the call's target,
\* name, listener and options is there before the step and gone after it,
\* also when the render that causes the removal carries other options.
C13_RemoveUsesOptionsOfAdd ==
  [][\A k \in 1..Len(lastCalls') :
       lastCalls'[k].op = "remove" =>
         LET c == lastCalls'[k]
             reg == [target |-> c.target, type |-> c.type,
                     fn |-> c.fn, options |-> c.options]
         IN /\ reg \in listeners
            /\ reg \notin listeners'
            /\ c.options = sub[c.fn[1]].options]_vars

\* a rebind whose new options differ from the ones removed
C13_Witness ==
  /\ Mounted("h1")
  /\ Len(lastCalls) = 2
  /\ lastCalls[1].op = "remove" /\ lastCalls[1].options = "capture1"
  /\ lastCalls[2].op = "add" /\ lastCalls[2].options = Undefined
  /\ props["h1"].options = Undefined

\* C14: an instance whose reference resolves to an element has its listener
\* on that element; it is invoked by exactly the events of the bound name
\* dispatched on that element, not by events on another element or on
\* window, nor by events of another name.
C14_OnlyBoundElementAndName ==
  /\ [][\A i \in Hooks :
          (/\ BodyRan(i)
           /\ props'[i].element \in Refs
           /\ refCurrent[props'[i].element] \in Elements)
          =>
          /\ sub'[i] # NoSub
          /\ sub'[i].target = refCurrent[props'[i].element]
          /\ sub'[i].eventName = props'[i].eventName
          /\ sub'[i].options = props'[i].options
          /\ Registered(i)' = {SubRegistration(i)'}]_vars
  /\ [](\A i \in Hooks :
          (/\ Mounted(i) /\ sub[i] # NoSub /\ sub[i].target \in Elements
           /\ lastEvent # NoEvent)
          =>
          /\ i \in InvokedHooks <=>
               Fired(sub[i].target, props[i].eventName)
          /\ i \in InvokedHooks =>
               <<i, props[i].handler>> \in lastEvent.invoked)

\* an event of the bound name on another element, after one on the bound
\* element had invoked the handler
C14_Witness ==
  /\ Mounted("h1")
  /\ adds["h1"] = 1
  /\ sub["h1"] # NoSub
  /\ sub["h1"].target = "div"
  /\ sub["h1"].options # Undefined
  /\ Fired("a", sub["h1"].eventName)
  /\ "h1" \notin InvokedHooks
  /\ TotalCalls = 1

\* ---- properties of the storage hooks ----
\* the value survives JSON: no NaN, undefined or cycle anywhere in it
RECURSIVE IsJsonValue(_)
IsJsonValue(v) ==
  CASE v.t \in {"string", "boolean", "null"} -> TRUE
    [] v.t = "number" -> v # JNaN
    [] v.t = "array" -> \A k \in 1..Len(v.items) : IsJsonValue(v.items[k])
    [] v.t = "object" ->
         \A k \in 1..Len(v.entries) : IsJsonValue(v.entries[k].val)
    [] OTHER -> FALSE

\* the step is a call of the getter right after a setter call on the same
\* key of the same store that did not fail, and getItem does not throw
GetAfterSet ==
  /\ lastOp.op = "set" /\ lastOp.threw = "none"
  /\ lastOp'.op = "get" /\ lastOp'.threw # "platform"
  /\ lastOp'.store = lastOp.store /\ lastOp'.key = lastOp.key

\* the step is a call of the storage function op
CallStep(op) == lastOp'.op = op /\ (lastOp' # lastOp \/ store' # store)

\* C15 as stated: for every string, number, boolean, array or plain object
\* v, get() right after set(v) returns a value equal to v.
C15_Original ==
  [][(GetAfterSet
      /\ lastOp.arg.t \in {"string", "number", "boolean", "array", "object"})
     => lastOp'.ret = lastOp.arg]_vars

\* C15 amended: for every value that JSON represents (strings, finite
\* numbers, booleans, and arrays and plain objects made of such values),
\* get() right after set(v) returns a value equal to v, without logging,
\* whatever the key held before.
C15_RoundTripOfJsonValues ==
  [][(GetAfterSet /\ IsJsonValue(lastOp.arg))
     => /\ lastOp'.ret = lastOp.arg
        /\ lastOp'.logged = "none"]_vars

\* the getter returned the string with a quote and a backslash
C15_Witness ==
  /\ lastOp.op = "get"
  /\ lastOp.store = "session"
  /\ lastOp.ret = JStr(<<"a", "\"", "\\">>)
  /\ store["session"]["k1"] = <<"\"", "a", "\\", "\"", "\\", "\\", "\"">>

\* C16: get() returns undefined, without logging, whenever the store holds
\* no item under the key; remove() leaves no item under the key, and on an
\* absent key it changes nothing; neither raises.
C16_AbsentKeyReadsUndefined ==
  /\ []((/\ lastOp.op = "get" /\ lastOp.threw # "platform"
         /\ store[lastOp.store][lastOp.key] = NoItem)
        => /\ lastOp.ret = JUndefined
           /\ lastOp.logged = "none"
           /\ raised = FALSE)
  /\ [][(CallStep("remove") /\ lastOp'.threw = "none")
        => /\ store'[lastOp'.store][lastOp'.key] = NoItem
           /\ store[lastOp'.store][lastOp'.key] = NoItem => store' = store
           /\ lastOp'.logged = "none"
           /\ raised' = FALSE]_vars

\* the getter returned undefined for a key that has no item
C16_Witness ==
  /\ lastOp.op = "get"
  /\ lastOp.threw = "none"
  /\ store[lastOp.store][lastOp.key] = NoItem
  /\ lastOp.ret = JUndefined

\* C17: when the stored string is not JSON, get() returns undefined as for
\* an absent key, logs the failure, does not raise and leaves the stored
\* item as it is.
C17_UnparsableItemReadsUndefined ==
  /\ []((/\ lastOp.op = "get" /\ lastOp.threw # "platform"
         /\ store[lastOp.store][lastOp.key] # NoItem
         /\ ~JsonParse(store[lastOp.store][lastOp.key]).ok)
        => /\ lastOp.ret = JUndefined
           /\ lastOp.logged = LogFunction(lastOp.store)
           /\ raised = FALSE)
  /\ [][CallStep("get") => store' = store]_vars

\* the getter logged for the stored string "{"
C17_Witness ==
  /\ lastOp.op = "get"
  /\ store[lastOp.store][lastOp.key] = <<"{">>
  /\ lastOp.ret = JUndefined
  /\ lastOp.logged # "none"

\* C18: when JSON.stringify or the platform call throws, set(v) and
\* remove() log the failure, do not raise and leave every stored item as it
\* was; a get() right after then reads undefined if the key had no item.
C18_FailedWriteKeepsItem ==
  [][/\ ((CallStep("set") \/ CallStep("remove")) /\ lastOp'.threw # "none")
        => /\ store' = store
           /\ lastOp'.logged = LogFunction(lastOp'.store)
           /\ raised' = FALSE
     /\ (/\ lastOp.op \in {"set", "remove"} /\ lastOp.threw # "none"
         /\ lastOp'.op = "get" /\ lastOp'.threw # "platform"
         /\ lastOp'.store = lastOp.store /\ lastOp'.key = lastOp.key
         /\ store[lastOp.store][lastOp.key] = NoItem)
        => lastOp'.ret = JUndefined]_vars

\* a setter call whose serialization threw, the earlier item still stored
C18_Witness ==
  /\ lastOp.op = "set"
  /\ lastOp.threw = "stringify"
  /\ lastOp.logged # "none"
  /\ store[lastOp.store][lastOp.key] = <<"1", "1">>
  /\ raised = FALSE

\* the step called addEventListener of the throwing target for instance i
ThrowingAdd(i) ==
  \E k \in 1..Len(lastCalls') :
    /\ lastCalls'[k].op = "add"
    /\ lastCalls'[k].target = ThrowingTarget
    /\ lastCalls'[k].fn[1] = i

\* the step delivered an event to a listener whose handler throws
ThrowingDelivery ==
  /\ lastEvent' # NoEvent
  /\ \E c \in lastEvent'.invoked : c[2] \in ThrowingHandlers

\* C19 as stated: no operation of the hooks lets an exception escape: bind,
\* unbind, delivery of an event (also when the handler throws) and storage
\* get/set/remove all complete without raising, whatever the platform call or
\* the handler does.
C19_Original == raised = FALSE

\* C19 amended: storage get/set/remove never raise, whatever the platform
\* call does; bind, unbind and delivery raise only when addEventListener
\* itself throws or the supplied handler throws, which the event listener
\* hook does not catch (a target without addEventListener is skipped without
\* raising); after a bind whose addEventListener threw the instance has no
\* subscription.
C19_OnlyStorageFailuresAreCaught ==
  [][/\ (lastOp' # lastOp \/ store' # store) => raised' = raised
     /\ (raised' /\ ~raised)
          => ((\E i \in Hooks : ThrowingAdd(i)) \/ ThrowingDelivery)
     /\ \A i \in Hooks :
          ThrowingAdd(i) => /\ raised'
                            /\ sub'[i] = NoSub
                            /\ {l \in listeners' : l.fn[1] = i} = {}]_vars

\* a bind on the throwing target raised and left no subscription, after a
\* storage call whose platform failure was logged
C19_Witness ==
  /\ raised
  /\ Mounted("h1")
  /\ \E k \in 1..Len(lastCalls) : lastCalls[k].target = ThrowingTarget
  /\ sub["h1"] = NoSub
  /\ lastOp.op \in {"get", "set", "remove"}
  /\ lastOp.threw = "platform"
  /\ lastOp.logged = "error"

\* the step renders or unmounts instance i
InstanceStep(i) == props'[i] # props[i] \/ status'[i] # status[i]

\* instance j has a listener attached on target t for event e
BoundTo(j, t, e) ==
  /\ Mounted(j)
  /\ sub[j] # NoSub
  /\ sub[j].target = t
  /\ sub[j].eventName = e
  /\ SubRegistration(j) \in listeners

\* C20: a render or the unmount of one instance leaves the attached listener
\* and the stored handler of every other mounted instance as they were, also
\* when both are bound to the same target and event name; an event invokes
\* the latest handler of each instance bound to its target and name exactly
\* once, and no handler of any other instance.
C20_InstancesAreIndependent ==
  [][/\ \A i \in Hooks : \A j \in Hooks \ {i} :
          (InstanceStep(i) /\ Mounted(j))
            => /\ sub'[j] = sub[j]
               /\ savedHandler'[j] = savedHandler[j]
               /\ {l \in listeners' : l.fn = sub[j].listener}
                    = {l \in listeners : l.fn = sub[j].listener}
               /\ sub[j] # NoSub => SubRegistration(j) \in listeners'
     /\ lastEvent' # NoEvent =>
          \A j \in Hooks :
            IF BoundTo(j, lastEvent'.target, lastEvent'.type)
            THEN calls'[j] = [calls[j] EXCEPT ![props[j].handler] = @ + 1]
            ELSE calls'[j] = calls[j]]_vars

\* h1 and h2 were bound to the same target and event name, h2 got a new
\* handler, h1 was unmounted, and the event invoked only h2's new handler
C20_Witness ==
  /\ status["h1"] = "unmounted"
  /\ Mounted("h2")
  /\ sub["h1"] # NoSub /\ sub["h2"] # NoSub
  /\ sub["h1"].target = sub["h2"].target
  /\ sub["h1"].eventName = sub["h2"].eventName
  /\ sub["h1"].options = sub["h2"].options
  /\ Fired(sub["h2"].target, sub["h2"].eventName)
  /\ props["h2"].handler = "g"
  /\ lastEvent.invoked = {<<"h2", "g">>}
  /\ calls["h2"]["g"] = 1
  /\ calls["h2"]["f"] = 0
  /\ calls["h1"]["f"] = 0 /\ calls["h1"]["g"] = 0

\* the registrations after the first n platform calls of the step
RECURSIVE AfterCalls(_, _, _)
AfterCalls(L, cs, n) ==
  IF n = 0 THEN L
  ELSE LET c == cs[n]
           M == AfterCalls(L, cs, n - 1)
           same(l) == /\ l.target = c.target /\ l.type = c.type
                      /\ l.fn = c.fn
                      /\ (l.options = Undefined) = (c.options = Undefined)
       IN IF c.op = "remove" THEN {l \in M : ~same(l)}
          ELSE IF \E l \in M : same(l) THEN M
          ELSE M \cup {[target |-> c.target, type |-> c.type,
                        fn |-> c.fn, options |-> c.options]}

\* C21: in every rebind the removeEventListener call of the old listener
\* comes before the addEventListener call of the new one, after no platform
\* call of the step are two listeners of one instance registered, and an
\* event invokes the handler of an instance at most once.
C21_RemoveBeforeAdd ==
  /\ [][/\ \A k \in 1..Len(lastCalls') : \A m \in 1..Len(lastCalls') :
             (/\ lastCalls'[k].op = "remove" /\ lastCalls'[m].op = "add"
              /\ lastCalls'[k].fn[1] = lastCalls'[m].fn[1]) => k < m
        /\ \A n \in 0..Len(lastCalls') : \A i \in Hooks :
             Cardinality({l \in AfterCalls(listeners, lastCalls', n) :
                            l.fn[1] = i}) <= 1
        /\ lastEvent' # NoEvent =>
             \A i \in Hooks :
               SumOver(calls'[i], DOMAIN calls'[i])
                 <= SumOver(calls[i], DOMAIN calls[i]) + 1]_vars
  /\ [](\A i \in Hooks : Cardinality({l \in listeners : l.fn[1] = i}) <= 1)

\* a rebind on the same target and event name: the remove, then the add
C21_Witness ==
  /\ Mounted("h1")
  /\ Len(lastCalls) = 2
  /\ lastCalls[1].op = "remove" /\ lastCalls[2].op = "add"
  /\ lastCalls[1].target = lastCalls[2].target
  /\ lastCalls[1].type = lastCalls[2].type
  /\ lastCalls[1].fn # lastCalls[2].fn
  /\ Cardinality(listeners) = 1

\* C22: the target is resolved when the subscription is created: assigning
\* the reference's current object changes no registration and no cleanup
\* closure, and a render that keeps eventName, reference object and options
\* leaves the listener on the object resolved at attach time, also when the
\* reference now points to another object.
C22_TargetResolvedAtAttach ==
  [][/\ refCurrent' # refCurrent => (listeners' = listeners /\ sub' = sub)
     /\ \A i \in Hooks :
          (/\ status[i] = "mounted" /\ status'[i] = "mounted"
           /\ props'[i].eventName = props[i].eventName
           /\ props'[i].element = props[i].element
           /\ props'[i].options = props[i].options)
          => /\ sub'[i] = sub[i]
             /\ {l \in listeners' : l.fn[1] = i}
                  = {l \in listeners : l.fn[1] = i}
             /\ lastCalls' = <<>>]_vars

\* the listener is still on the element resolved at attach time although
\* the reference points to another element and the instance was rendered
\* again with another handler
C22_Witness ==
  /\ Mounted("h1")
  /\ props["h1"].element = "r1"
  /\ sub["h1"] # NoSub
  /\ sub["h1"].target = "div"
  /\ refCurrent["r1"] = "a"
  /\ SubRegistration("h1") \in listeners
  /\ savedHandler["h1"] = "g"
  /\ Fired("div", props["h1"].eventName)
  /\ lastEvent.invoked = {<<"h1", "g">>}

\* C23: every removeEventListener call of the hook has the target, the event
\* name and the listener function of an addEventListener call made before:
\* the registration it names is there before the step and gone after it,
\* also when the reference points to another object by then or the render
\* carries another eventName.
C23_RemoveMatchesAdd ==
  [][\A k \in 1..Len(lastCalls') :
       lastCalls'[k].op = "remove" =>
         LET c == lastCalls'[k] IN
         /\ \E l \in listeners :
              l.target = c.target /\ l.type = c.type /\ l.fn = c.fn
         /\ ~\E l \in listeners' : l.fn = c.fn
         /\ c.target = sub[c.fn[1]].target
         /\ c.type = sub[c.fn[1]].eventName
         /\ c.fn = sub[c.fn[1]].listener]_vars

\* the listener was removed from div under click while the reference
\* pointed to another object and the render carried resize
C23_Witness ==
  /\ Mounted("h1")
  /\ lastCalls # <<>>
  /\ lastCalls[1].op = "remove"
  /\ lastCalls[1].target = "div"
  /\ lastCalls[1].type = "click"
  /\ refCurrent["r1"] # "div"
  /\ props["h1"].element = "r1"
  /\ props["h1"].eventName = "resize"
  /\ ~\E l \in listeners : l.target = "div"

\* the step renders mounted instance i with another options object of the
\* same contents, eventName and reference as before
SameContentsRender(i) ==
  /\ status[i] = "mounted" /\ status'[i] = "mounted"
  /\ props'[i].eventName = props[i].eventName
  /\ props'[i].element = props[i].element
  /\ props'[i].options # props[i].options
  /\ props[i].options # Undefined /\ props'[i].options # Undefined

\* C24: options are compared by identity: a render that passes another
\* options object with the same contents (eventName and reference as before)
\* removes the attached listener and, the reference resolving to an event
\* target, attaches a new listener function with the new options object.
C24_OptionsComparedByIdentity ==
  [][\A i \in Hooks :
       (SameContentsRender(i) /\ sub[i] # NoSub) =>
         /\ lastCalls' # <<>>
         /\ lastCalls'[1] = RemoveOfSub(i)
         /\ ~\E l \in listeners' : l.fn = sub[i].listener
         /\ ResolveTarget(props'[i].element) \in EventTargets =>
              /\ Len(lastCalls') = 2
              /\ lastCalls'[2].op = "add"
              /\ lastCalls'[2].type = props[i].eventName
              /\ lastCalls'[2].options = props'[i].options
              /\ lastCalls'[2].fn # sub[i].listener
              /\ \E l \in listeners' :
                   /\ l.fn = lastCalls'[2].fn
                   /\ l.options = props'[i].options]_vars

\* the listener registered with capture1 was replaced by one registered with
\* capture2 on the same target under the same name
C24_Witness ==
  /\ Mounted("h1")
  /\ Len(lastCalls) = 2
  /\ lastCalls[1].op = "remove" /\ lastCalls[1].options = "capture1"
  /\ lastCalls[2].op = "add" /\ lastCalls[2].options = "capture2"
  /\ lastCalls[1].target = lastCalls[2].target
  /\ lastCalls[1].type = lastCalls[2].type
  /\ \E l \in listeners : l.fn = lastCalls[2].fn /\ l.options = "capture2"

\* the latest step was a removeEventListener call with a handler function
RemovedByHandler ==
  /\ Len(lastCalls) = 1
  /\ lastCalls[1].op = "remove"
  /\ lastCalls[1].fn[2] = 0

\* C25: the function registered with the platform is the hook's own
\* forwarding function, not the caller's handler: a removeEventListener call
\* with the handler function removes no registration, the subscription of a
\* mounted instance stays attached, and an event on its target under its
\* name still invokes the handler.
C25_RemoveByHandlerRemovesNothing ==
  /\ [][\A l \in listeners \ listeners' :
          \E k \in 1..Len(lastCalls') :
            /\ lastCalls'[k].op = "remove"
            /\ lastCalls'[k].fn = l.fn
            /\ lastCalls'[k].fn[2] # 0]_vars
  /\ [](\A l \in listeners : l.fn[2] # 0)
  /\ [](\A i \in Hooks :
          (Mounted(i) /\ sub[i] # NoSub) =>
            /\ SubRegistration(i) \in listeners
            /\ Fired(sub[i].target, sub[i].eventName) =>
                 <<i, props[i].handler>> \in lastEvent.invoked)

\* removeEventListener('resize', f) was called on window while the hook's
\* subscription for resize with handler f is on window, and it still is
C25_Witness ==
  /\ RemovedByHandler
  /\ lastCalls[1].target = Window
  /\ lastCalls[1].type = "resize"
  /\ lastCalls[1].fn = HandlerFunction("f")
  /\ Mounted("h1")
  /\ props["h1"].handler = "f"
  /\ props["h1"].eventName = "resize"
  /\ sub["h1"] # NoSub
  /\ sub["h1"].target = Window
  /\ sub["h1"].eventName = "resize"
  /\ SubRegistration("h1") \in listeners

\* the step is a call of the getter of one instance right after a call of
\* op by the other instance of the same key and store that did not fail,
\* and getItem does not throw
GetAfterOther(op) ==
  /\ lastOp.op = op /\ lastOp.threw = "none"
  /\ lastOp'.op = "get" /\ lastOp'.threw # "platform"
  /\ lastOp'.store = lastOp.store /\ lastOp'.key = lastOp.key
  /\ lastOp'.by # lastOp.by

\* C26: the storage hooks keep no copy of the value per instance: with two
\* instances of the same key on the same storage, get() of one instance right
\* after a set(v) of the other that did not fail returns v (v a value JSON
\* represents), whatever either instance set or removed before, and get()
\* right after a remove() of the other returns undefined.
C26_InstancesShareTheStoredValue ==
  [][/\ (GetAfterOther("set") /\ IsJsonValue(lastOp.arg))
          => lastOp'.ret = lastOp.arg
     /\ GetAfterOther("remove") => lastOp'.ret = JUndefined]_vars

\* instance s1 read 11 right after instance s2 had set it
C26_Witness ==
  /\ lastOp.op = "get"
  /\ lastOp.by = "s1"
  /\ lastOp.after = [op |-> "set", by |-> "s2"]
  /\ lastOp.ret = JNum(11)
  /\ lastOp.threw = "none"

====
